---- MODULE Spec2Model ----
(***************************************************************************)
(* State-machine model of scripts/rl_node.py (class RLNode): the scan      *)
(* callback, the odometry callback with its policy/simulator rollout, and  *)
(* the pure helpers run_model, get_beta and to_mppi_state.                 *)
(*                                                                         *)
(* Numbers are fixed point.  Angles that are wrapped (yaw, atan2) are in   *)
(* units of pi/12; a normalised policy output is in halves (ONE = 1.0);    *)
(* steer and speed are in units of 0.5e-4 (rad, m/s); slip angles from     *)
(* get_beta are in 1e-4 rad; scan ranges and positions are integers.       *)
(* A float NaN is the value NaN, distinct from every number of the model.  *)
(***************************************************************************)
EXTENDS Integers, Sequences, FiniteSets, TLC

VARIABLES
    config,      \* self.config: num_scans, n_steps, sim_time_step, rl_sim_time_step, use_mppi
    pc,          \* idle | reset | step | infer | finish | done (pose_callback returns) | crashed
    pose,        \* self.pose      <<x, y, yaw>>
    vels,        \* self.vels      <<vx, vy, yaw_rate>>
    heading,     \* self.heading   <<steer, beta>>
    laser_scan,  \* self.laser_scan[0]: sequence of N_BEAMS readings
    msg,         \* the Odometry message of the cycle in progress (or the last one)
    ref_traj,    \* local ref_traj of pose_callback: sequence of rows
    steer,       \* local steer of pose_callback
    vel,         \* local vel of pose_callback
    i,           \* loop variable of pose_callback
    obs,         \* local obs of pose_callback (the observation of the next policy call)
    xs,          \* locals xs, ys, yaws: sequence of <<x, y, yaw>>
    drive_out,   \* messages published on /drive during the cycle
    traj_out,    \* messages published on /rl/ref_traj during the cycle
    viz_out,     \* messages published on /viz_rl during the cycle
    policyLog,   \* the cycle's calls of self.model.run: [obs, raw, ret]
    resetLog,    \* the cycle's calls of self.env.reset: the pose passed
    stepLog,     \* the cycle's calls of self.env.step: [action, ret]
    arccosLog,   \* the cycle's argument of np.arccos
    scanLog,     \* the last LaserScan message handled, if any
    error        \* the call that raised, when the node crashed

vars == <<config, pc, pose, vels, heading, laser_scan, msg, ref_traj, steer, vel,
          i, obs, xs, drive_out, traj_out, viz_out, policyLog, resetLog, stepLog,
          arccosLog, scanLog, error>>

-----------------------------------------------------------------------------
(* Numbers *)

\* A float NaN (np.arccos outside [-1, 1]); every number of the model is far from it.
NaN == 0 - 1000000

IsNaN(v) == v = NaN

\* pi in angle units of pi/12.
PI == 12

\* 1.0 of a normalised policy output, in halves.
ONE == 2

\* self.CONTROL_MAX, in 1e-4 rad and 1e-4 m/s.
STEER_MAX == 4189
VEL_MAX == 40000

\* The hard-coded full scan length of np.arange(0, 1080, ...).
FULL_SCAN == 1080

Abs(v) == IF v < 0 THEN -v ELSE v

Min2(a, b) == IF a <= b THEN a ELSE b

Max2(a, b) == IF a >= b THEN a ELSE b

\* ndarray.clip(lo, hi) on one element: minimum(maximum(v, lo), hi).
Clip(v, lo, hi) == Min2(Max2(v, lo), hi)

\* np.arccos on the grid of cosines of multiples of pi/12 (w in thousandths):
\* NaN outside [-1, 1].
Arccos(w) ==
    IF w < -1000 \/ w > 1000 THEN NaN
    ELSE CASE w = 1000  -> 0
           [] w = 866   -> 2
           [] w = 707   -> 3
           [] w = 500   -> 4
           [] w = 0     -> 6
           [] w = -500  -> 8
           [] w = -707  -> 9
           [] w = -866  -> 10
           [] w = -1000 -> 12

\* yaw = 2 * np.arccos(ori.w); NaN propagates through the product.
YawOf(w) == IF IsNaN(Arccos(w)) THEN NaN ELSE 2 * Arccos(w)

\* np.arctan2(vy, vx) on the velocity grid {-1, 0, 1}, in units of pi/12.
Arctan2(vy, vx) ==
    CASE vy = 0  /\ vx = 1  -> 0
      [] vy = 1  /\ vx = 1  -> 3
      [] vy = 1  /\ vx = 0  -> 6
      [] vy = 1  /\ vx = -1 -> 9
      [] vy = 0  /\ vx = -1 -> 12
      [] vy = -1 /\ vx = -1 -> -9
      [] vy = -1 /\ vx = 0  -> -6
      [] vy = -1 /\ vx = 1  -> -3
      [] vy = 0  /\ vx = 0  -> 0

\* A wrap into (-pi, pi] instead: the boundary resolved to +pi.
WrapYawHigh(yaw) ==
    IF IsNaN(yaw) THEN NaN
    ELSE IF (yaw + PI) % (2 * PI) = 0 THEN PI ELSE ((yaw + PI) % (2 * PI)) - PI

\* (yaw + np.pi) % (2 * np.pi) - np.pi; Python's % has the sign of the divisor.
WrapYaw(yaw) == IF IsNaN(yaw) THEN NaN ELSE ((yaw + PI) % (2 * PI)) - PI

\* RLNode.to_mppi_state: [x, y, delta, vx, yaw_wrapped, yaw_rate, beta].
to_mppi_state(x, y, yaw, yaw_rate, vx, vy, delta) ==
    <<x, y, delta, vx, WrapYaw(yaw), yaw_rate, Arctan2(vy, vx)>>

\* RLNode.get_beta: arctan(LR * tan(steer) / (LF + LR)) with LF = 0.15875 and
\* LR = 0.17145, tabulated on the steering grid (steer in 0.5e-4 rad, the result
\* in 1e-4 rad; the function is odd).
BetaTable(c) == CASE c = 0 -> 0 [] c = STEER_MAX -> 1099 [] c = 2 * STEER_MAX -> 2272
get_beta(s) == IF s < 0 THEN -BetaTable(-s) ELSE BetaTable(s)

\* The clip applied to the steering channel only.
ScaleClipSteerOnly(raw) == <<Clip(raw[1], -ONE, ONE) * STEER_MAX, raw[2] * VEL_MAX>>

\* control.clip(-1.0, 1.0) * self.CONTROL_MAX, then (steer, vel).
ScaleControl(raw) ==
    <<Clip(raw[1], -ONE, ONE) * STEER_MAX, Clip(raw[2], -ONE, ONE) * VEL_MAX>>

-----------------------------------------------------------------------------
(* Configuration, as __init__ derives it *)

N_BEAMS == config.num_scans

\* np.arange(0, 1080, 1080 // N_BEAMS), as a sequence of 0-based indices.
ScanStride == FULL_SCAN \div N_BEAMS
ScanIndexLen == (FULL_SCAN + ScanStride - 1) \div ScanStride
SCAN_INDEX == [j \in 1..ScanIndexLen |-> (j - 1) * ScanStride]

\* int(n * sim / rl) on Python floats, for time steps sim in {0.05, 0.1, 0.3} and
\* rl in {0.025, 0.05, 0.1} (written here in ms) and 0 <= n <= 10.  The quotient
\* of the doubles falls just below the exact integer for sim = 0.3 and n in
\* {1, 2, 3, 4, 6, 8, 9}, and int() truncates: int(0.3 / 0.1) = 2,
\* int(2 * 0.3 / 0.1) = 5, int(5 * 0.3 / 0.1) = 15.  Every other quotient of the
\* grid is the exact one.
FloatQuotientIsLow(n, sim, rl) == sim = 300 /\ n \in {1, 2, 3, 4, 6, 8, 9}

IntOfQuotient(n, sim, rl) ==
    IF FloatQuotientIsLow(n, sim, rl) THEN (n * sim) \div rl - 1 ELSE (n * sim) \div rl

\* int(n_steps * sim_time_step / rl_sim_time_step)
N_SIM == IntOfQuotient(config.n_steps, config.sim_time_step, config.rl_sim_time_step)

\* int(sim_time_step / rl_sim_time_step): the step of the slice ref_traj[::k].
ResampleStep == IntOfQuotient(1, config.sim_time_step, config.rl_sim_time_step)

DRIVE == ~config.use_mppi

-----------------------------------------------------------------------------
(* Messages and backend answers *)

\* msg.ranges[k] (0-based) of a LaserScan message m = [len, range_min, range_max,
\* kind]: a ramp (reading k is k cm) or a flat scan.
Ranges(m, k) == IF m.kind = "ramp" THEN k ELSE 500

\* simulator obs["scans"][0, k] of a step result o.
SimScans(o, k) == o.scanBase + k

NoScanMsg == [len |-> 0, range_min |-> 0, range_max |-> 0, kind |-> "none"]

NoOdom == [x |-> 0, y |-> 0, w |-> 1000, vx |-> 0, vy |-> 0, wz |-> 0]

NoObs == [scan |-> <<>>, pose |-> <<0, 0, 0>>, vel |-> <<0, 0, 0>>, heading |-> <<0, 0>>]

\* np.zeros(7)
ZeroRow == <<0, 0, 0, 0, 0, 0, 0>>

\* values[self.SCAN_INDEX] raises IndexError when an index is out of bounds.
IndexInBounds(len) == \A j \in 1..ScanIndexLen : SCAN_INDEX[j] < len

\* self.laser_scan[0] = <ScanIndexLen values>: numpy broadcasts one value and
\* otherwise needs the shapes to agree (ValueError).
ShapeFits == ScanIndexLen = N_BEAMS \/ ScanIndexLen = 1

\* A slice that keeps floor(rows / k) rows only.
ResampleShort(traj, k) == [j \in 1..(Len(traj) \div k) |-> traj[(j - 1) * k + 1]]

\* ref_traj[::k] for k >= 1: rows 0, k, 2k, ... of the N_SIM + 1 rows.
Resample(traj, k) == [j \in 1..((Len(traj) - 1) \div k + 1) |-> traj[(j - 1) * k + 1]]

\* RLNode.run_model on the raw output control[0][0, 0] of the policy.
run_model(raw) == ScaleControl(raw)

-----------------------------------------------------------------------------
(* Init: the state __init__ leaves, for each configuration of a set *)

InitOf(configs) ==
    /\ config \in configs
    /\ pc = "idle"
    /\ pose = <<0, 0, 0>>
    /\ vels = <<0, 0, 0>>
    /\ heading = <<0, 0>>
    /\ laser_scan = [j \in 1..config.num_scans |-> 10 * 100]
    /\ msg = NoOdom
    /\ ref_traj = <<>>
    /\ steer = 0
    /\ vel = 0
    /\ i = 0
    /\ obs = NoObs
    /\ xs = <<>>
    /\ drive_out = <<>>
    /\ traj_out = <<>>
    /\ viz_out = <<>>
    /\ policyLog = <<>>
    /\ resetLog = <<>>
    /\ stepLog = <<>>
    /\ arccosLog = <<>>
    /\ scanLog = [seen |-> FALSE, msg |-> NoScanMsg]
    /\ error = ""

-----------------------------------------------------------------------------
(* laser_callback *)

cycleVars == <<pose, vels, heading, msg, ref_traj, steer, vel, i, obs, xs, drive_out,
               traj_out, viz_out, policyLog, resetLog, stepLog, arccosLog>>

\* The stored readings: values.clip(min_range, max_range)[self.SCAN_INDEX].
ScanSelection(m) ==
    [j \in 1..ScanIndexLen |-> Clip(Ranges(m, SCAN_INDEX[j]), m.range_min, m.range_max)]

\* numpy assignment into the row self.laser_scan[0] of N_BEAMS cells.
StoreRow(sel) == [j \in 1..N_BEAMS |-> IF Len(sel) = 1 THEN sel[1] ELSE sel[j]]

laser_callback(scanMsgs) ==
    \E m \in scanMsgs :
        /\ pc = "idle"
        /\ IndexInBounds(m.len)
        /\ ShapeFits
        /\ laser_scan' = StoreRow(ScanSelection(m))
        /\ scanLog' = [seen |-> TRUE, msg |-> m]
        /\ UNCHANGED <<config, pc, error>>
        /\ UNCHANGED cycleVars

\* IndexError (line 111, the indexing) or ValueError (line 111, the assignment):
\* the exception leaves rclpy.spin and main() destroys the node.
laser_callback_raise(scanMsgs) ==
    \E m \in scanMsgs :
        /\ pc = "idle"
        /\ ~(IndexInBounds(m.len) /\ ShapeFits)
        /\ pc' = "crashed"
        /\ error' = IF IndexInBounds(m.len) THEN "ValueError:laser_scan" ELSE "IndexError:ranges"
        /\ scanLog' = [seen |-> TRUE, msg |-> m]
        /\ UNCHANGED <<config, laser_scan>>
        /\ UNCHANGED cycleVars

-----------------------------------------------------------------------------
(* pose_callback, lines 125-156: up to the mode branch *)

\* The Odometry message m starts a cycle: locals and the cycle's records are fresh,
\* yaw is computed and the vehicle state written (lines 125-136).
BeginCycle(m) ==
    /\ pc = "idle"
    /\ msg' = m
    /\ arccosLog' = <<m.w>>
    /\ pose' = <<m.x, m.y, YawOf(m.w)>>
    /\ vels' = <<m.vx, m.vy, m.wz>>
    /\ UNCHANGED <<config, laser_scan, scanLog, i, obs, xs, traj_out, viz_out, resetLog,
                   stepLog>>

\* The observation of line 138: the node's own arrays.
RealObs(m) ==
    [scan |-> laser_scan, pose |-> <<m.x, m.y, YawOf(m.w)>>,
     vel |-> <<m.vx, m.vy, m.wz>>, heading |-> heading]

\* The two fields exchanged.
DriveMsgSwapped(s, v) == [speed |-> s, steering_angle |-> v]

\* drive.drive.speed = vel; drive.drive.steering_angle = steer
DriveMsg(s, v) == [speed |-> v, steering_angle |-> s]

pose_callback(odomMsgs, raws) ==
    \E m \in odomMsgs, raw \in raws :
        LET act == run_model(raw)
            row0 == to_mppi_state(m.x, m.y, YawOf(m.w), m.wz, m.vx, m.vy, act[1])
        IN  /\ BeginCycle(m)
            /\ policyLog' = <<[obs |-> RealObs(m), raw |-> raw, ret |-> act]>>
            /\ steer' = act[1]
            /\ vel' = act[2]
            /\ heading' = <<act[1], get_beta(act[1])>>
            /\ ref_traj' = [r \in 1..(N_SIM + 1) |-> IF r = 1 THEN row0 ELSE ZeroRow]
            /\ IF DRIVE
                  THEN /\ drive_out' = <<DriveMsg(act[1], act[2])>>
                       /\ pc' = "done"
                  ELSE /\ drive_out' = <<>>
                       /\ pc' = "reset"
            /\ error' = ""

\* self.model.run raises at line 145 (backend failure, shape mismatch).
pose_callback_raise(odomMsgs) ==
    \E m \in odomMsgs :
        /\ BeginCycle(m)
        /\ policyLog' = <<>>
        /\ ref_traj' = [r \in 1..(N_SIM + 1) |-> ZeroRow]
        /\ drive_out' = <<>>
        /\ pc' = "crashed"
        /\ error' = "run_model"
        /\ UNCHANGED <<steer, vel, heading>>

-----------------------------------------------------------------------------
(* pose_callback, lines 158-189: the rollout *)

nodeVars == <<config, pose, vels, heading, laser_scan, msg, scanLog, arccosLog, drive_out>>

\* The pose env.reset is given: np.array([[pos.x, pos.y, yaw]]).
ResetPose == <<msg.x, msg.y, YawOf(msg.w)>>

Crash(what) ==
    /\ pc' = "crashed"
    /\ error' = what

\* A loop of range(N_SIM - 1).
LoopContinuesOneLess(n) == n + 1 < N_SIM

\* The loop test of line 162 with i = n: another step, or the loop ends.
LoopContinues(n) == n < N_SIM

\* line 161
env_reset ==
    /\ pc = "reset"
    /\ resetLog' = Append(resetLog, ResetPose)
    /\ pc' = IF LoopContinues(0) THEN "step" ELSE "finish"
    /\ UNCHANGED nodeVars
    /\ UNCHANGED <<ref_traj, steer, vel, i, obs, xs, traj_out, viz_out, policyLog,
                   stepLog, error>>

env_reset_raise ==
    /\ pc = "reset"
    /\ Crash("env.reset")
    /\ UNCHANGED nodeVars
    /\ UNCHANGED <<ref_traj, steer, vel, i, obs, xs, traj_out, viz_out, policyLog,
                   resetLog, stepLog>>

\* The action env.step is given: np.array([[steer, vel]]).
StepAction == <<steer, vel>>

\* The same observation with the node's heading (the steer of the first policy
\* call) in place of the steer just used.
SimObsStaleHeading(o) ==
    [scan |-> [j \in 1..ScanIndexLen |-> SimScans(o, SCAN_INDEX[j])],
     pose |-> <<o.x, o.y, o.theta>>,
     vel |-> <<o.vx, o.vy, o.wz>>,
     heading |-> heading]

\* The observation of lines 164-179, from the step result o and the steer just used.
SimObs(o) ==
    [scan |-> [j \in 1..ScanIndexLen |-> SimScans(o, SCAN_INDEX[j])],
     pose |-> <<o.x, o.y, o.theta>>,
     vel |-> <<o.vx, o.vy, o.wz>>,
     heading |-> <<steer, get_beta(steer)>>]

\* lines 163-179: one simulator step and the observation built from it
env_step(simResults) ==
    \E o \in simResults :
        /\ pc = "step"
        /\ IndexInBounds(o.scanWidth)
        /\ stepLog' = Append(stepLog, [action |-> StepAction, ret |-> o])
        /\ xs' = Append(xs, <<o.x, o.y, o.theta>>)
        /\ obs' = SimObs(o)
        /\ pc' = "infer"
        /\ UNCHANGED nodeVars
        /\ UNCHANGED <<ref_traj, steer, vel, i, traj_out, viz_out, policyLog, resetLog,
                       error>>

\* env.step raises, or obs["scans"][:, self.SCAN_INDEX] does (IndexError, line 164).
env_step_raise(simResults) ==
    /\ pc = "step"
    /\ \/ Crash("env.step")
       \/ \E o \in simResults : ~IndexInBounds(o.scanWidth) /\ Crash("IndexError:scans")
    /\ UNCHANGED nodeVars
    /\ UNCHANGED <<ref_traj, steer, vel, i, obs, xs, traj_out, viz_out, policyLog,
                   resetLog, stepLog>>

\* The row written at line 181.
RowIndex(n) == n + 2

\* lines 180-183: the policy call on the simulated observation and the row i + 1
run_model_loop(raws) ==
    \E raw \in raws :
        LET act == run_model(raw)
            row == to_mppi_state(obs.pose[1], obs.pose[2], obs.pose[3], obs.vel[3],
                                 obs.vel[1], obs.vel[2], act[1])
        IN  /\ pc = "infer"
            /\ policyLog' = Append(policyLog, [obs |-> obs, raw |-> raw, ret |-> act])
            /\ steer' = act[1]
            /\ vel' = act[2]
            /\ ref_traj' = [ref_traj EXCEPT ![RowIndex(i)] = row]
            /\ i' = i + 1
            /\ pc' = IF LoopContinues(i + 1) THEN "step" ELSE "finish"
            /\ UNCHANGED nodeVars
            /\ UNCHANGED <<obs, xs, traj_out, viz_out, resetLog, stepLog, error>>

run_model_loop_raise ==
    /\ pc = "infer"
    /\ Crash("run_model")
    /\ UNCHANGED nodeVars
    /\ UNCHANGED <<ref_traj, steer, vel, i, obs, xs, traj_out, viz_out, policyLog,
                   resetLog, stepLog>>

\* Lines 184-189 indented into the loop body.
PublishPointInLoop == pc \in {"step", "finish"}

\* Where lines 184-189 stand: after the loop.
PublishPoint == pc = "finish"

\* lines 184-189: the markers, the resampling and the trajectory message
publish_traj ==
    /\ PublishPoint
    /\ ResampleStep > 0
    /\ viz_out' = <<xs>>
    /\ traj_out' = <<Resample(ref_traj, ResampleStep)>>
    /\ pc' = "done"
    /\ UNCHANGED nodeVars
    /\ UNCHANGED <<ref_traj, steer, vel, i, obs, xs, policyLog, resetLog, stepLog, error>>

\* ref_traj[::0] raises ValueError (slice step cannot be zero), after line 184.
publish_traj_raise ==
    /\ PublishPoint
    /\ ResampleStep = 0
    /\ viz_out' = <<xs>>
    /\ Crash("ValueError:slice")
    /\ UNCHANGED nodeVars
    /\ UNCHANGED <<ref_traj, steer, vel, i, obs, xs, traj_out, policyLog, resetLog, stepLog>>

\* pose_callback returns (line 156 or the end of the body): its locals are gone, and
\* the records of the cycle are closed.
pose_callback_return ==
    /\ pc = "done"
    /\ pc' = "idle"
    /\ ref_traj' = <<>>
    /\ steer' = 0
    /\ vel' = 0
    /\ i' = 0
    /\ obs' = NoObs
    /\ xs' = <<>>
    /\ drive_out' = <<>>
    /\ traj_out' = <<>>
    /\ viz_out' = <<>>
    /\ policyLog' = <<>>
    /\ resetLog' = <<>>
    /\ stepLog' = <<>>
    /\ arccosLog' = <<>>
    /\ UNCHANGED <<config, pose, vels, heading, laser_scan, msg, scanLog, error>>

-----------------------------------------------------------------------------
(* The next-state relation over given sets of messages and backend answers *)

NextOf(odomMsgs, scanMsgs, raws, simResults) ==
    \/ laser_callback(scanMsgs)
    \/ laser_callback_raise(scanMsgs)
    \/ pose_callback(odomMsgs, raws)
    \/ pose_callback_raise(odomMsgs)
    \/ env_reset
    \/ env_reset_raise
    \/ env_step(simResults)
    \/ env_step_raise(simResults)
    \/ run_model_loop(raws)
    \/ run_model_loop_raise
    \/ publish_traj
    \/ publish_traj_raise
    \/ pose_callback_return

-----------------------------------------------------------------------------
(* Bounds and input sets *)

\* Largest n_steps of the rollout specification (its time steps are equal or 1:2).
MaxNSteps == 2

\* Largest n_steps of the resampling specification.
MaxCoarseSteps == 5

\* Largest magnitude of a raw policy output, in halves.
MaxRaw == 3

\* Largest magnitude of a simulator yaw, in units of pi/12.
MaxSimYaw == 26

Cfg(b, n, sim, rl, mppi) ==
    [num_scans |-> b, n_steps |-> n, sim_time_step |-> sim, rl_sim_time_step |-> rl,
     use_mppi |-> mppi]

Odom(x, y, w, vx, vy, wz) == [x |-> x, y |-> y, w |-> w, vx |-> vx, vy |-> vy, wz |-> wz]

Sim(x, y, theta, vx, vy, wz, width, base) ==
    [x |-> x, y |-> y, theta |-> theta, vx |-> vx, vy |-> vy, wz |-> wz,
     scanWidth |-> width, scanBase |-> base]

ScanMsg(len, lo, hi, kind) == [len |-> len, range_min |-> lo, range_max |-> hi, kind |-> kind]

\* Scans of 1080, 2160 and 812 readings (all reach index 810), and one of 8.
ScanMsgs ==
    {ScanMsg(FULL_SCAN, 0, 3000, "ramp"), ScanMsg(2 * FULL_SCAN, 300, 600, "ramp"),
     ScanMsg(812, 0, 3000, "flat"), ScanMsg(8, 0, 3000, "flat")}

FewScanMsgs == {ScanMsg(FULL_SCAN, 300, 600, "ramp"), ScanMsg(8, 0, 3000, "flat")}

\* Orientations: yaw 0, 3pi/2, and w outside [-1, 1].
OdomMsgs ==
    {Odom(0, 0, 1000, 1, 0, 0), Odom(3, -2, -707, -1, 1, 2), Odom(1, 1, 1500, 0, -1, -1)}

FewOdomMsgs == {Odom(0, 0, 1000, 1, 0, 0), Odom(3, -2, -707, -1, 1, 2)}

WGrid == {1000, 866, 707, 500, 0, -500, -707, -866, -1000, 1500, -1001}

AllYawOdomMsgs == {Odom(3, -2, w, 1, 0, 0) : w \in WGrid}

\* A simulator whose scans have 1080 columns, or N_BEAMS columns.
SimResults ==
    {Sim(5, 6, 7, 1, 1, 3, FULL_SCAN, 100), Sim(-4, 8, -13, 0, -1, -2, FULL_SCAN, 200),
     Sim(5, 6, 7, 1, 1, 3, 4, 100)}

FewSimResults == {Sim(5, 6, 7, 1, 1, 3, FULL_SCAN, 100), Sim(5, 6, 7, 1, 1, 3, 4, 100)}

\* A vehicle that advances and turns by one unit at every step of the loop: the
\* result of step i + 1 differs from that of every other step.
MovingSimResults ==
    {Sim(i + 1, 2 * i, i - 3, 1, 0, 1, FULL_SCAN, 100 + i), Sim(i + 1, 2 * i, i - 3, 1, 0, 1, 4, 100)}

AllYawSimResults ==
    {Sim(5, 6, th, 1, 1, 3, FULL_SCAN, 100) : th \in -MaxSimYaw..MaxSimYaw}
        \cup {Sim(5, 6, 7, 1, 1, 3, 4, 100)}

Raws == {<<-3, 3>>, <<-1, 2>>, <<0, -1>>, <<2, 1>>}

FewRaws == {<<-1, 2>>}

\* Every raw value on either channel, the other channel at 0, equal or opposite.
AllRaws ==
    {r \in (-MaxRaw..MaxRaw) \X (-MaxRaw..MaxRaw) :
        r[1] = 0 \/ r[2] = 0 \/ r[1] = r[2] \/ r[1] = -r[2]}

\* Rollouts: equal time steps (N_SIM = n_steps) or a coarse step of half the fine
\* one (slice step 0); 4 beams in either mode, 7 beams (no divisor of 1080) driving.
Configs ==
    {Cfg(4, n, sim, 100, mppi) : n \in 0..MaxNSteps, sim \in {50, 100}, mppi \in BOOLEAN}
        \cup {Cfg(7, 1, 100, 100, FALSE)}

\* Resampling: planning, the time steps of the grid of IntOfQuotient.
ResampleConfigs ==
    {Cfg(4, n, sim, rl, TRUE) :
        n \in 0..MaxCoarseSteps, sim \in {50, 100, 300}, rl \in {25, 50, 100}}

\* One step, either mode.
ShortConfigs == {Cfg(4, 1, sim, 100, mppi) : sim \in {50, 100}, mppi \in BOOLEAN}

Init == InitOf(Configs)
Next == NextOf(OdomMsgs, ScanMsgs, Raws, SimResults)
Spec == Init /\ [][Next]_vars

InitResample == InitOf(ResampleConfigs)
NextResample == NextOf(FewOdomMsgs, FewScanMsgs, FewRaws, MovingSimResults)
SpecResample == InitResample /\ [][NextResample]_vars

InitAngles == InitOf(ShortConfigs)
NextAngles == NextOf(AllYawOdomMsgs, FewScanMsgs, FewRaws, AllYawSimResults)
SpecAngles == InitAngles /\ [][NextAngles]_vars

InitControl == InitOf(ShortConfigs)
NextControl == NextOf(FewOdomMsgs, FewScanMsgs, AllRaws, FewSimResults)
SpecControl == InitControl /\ [][NextControl]_vars

-----------------------------------------------------------------------------
(* Properties *)

Planning == ~DRIVE

\* The yaw given to to_mppi_state for row r (1-based): the real yaw for the first
\* row, the simulator's poses_theta of step r - 1 for the others.
RowYaw(r) == IF r = 1 THEN YawOf(msg.w) ELSE stepLog[r - 1].ret.theta

\* Rows of ref_traj written so far: one per policy call that returned.
WrittenRows == 1..Len(policyLog)

\* C1: in planning mode a cycle resets the simulator once, then alternates
\* env.step and run_model; at every point of the loop the calls made so far are
\* those of the loop index, and the cycle ends with exactly one reset, N_SIM steps
\* and N_SIM + 1 policy calls, whatever the states and actions were.
C1_CallCounts ==
    Planning =>
        /\ pc = "reset" => resetLog = <<>> /\ stepLog = <<>> /\ Len(policyLog) = 1
        /\ pc \in {"step", "infer", "finish", "done"} => Len(resetLog) = 1
        /\ pc = "step" => i < N_SIM /\ Len(stepLog) = i /\ Len(policyLog) = i + 1
        /\ pc = "infer" => i < N_SIM /\ Len(stepLog) = i + 1 /\ Len(policyLog) = i + 1
        /\ pc \in {"finish", "done"} =>
               i = N_SIM /\ Len(stepLog) = N_SIM /\ Len(policyLog) = N_SIM + 1

\* The end-to-end scenario: pose (0,0,0), velocity (1,0,0), scan all 10.0, horizon 2.
C1_Witness ==
    /\ Planning /\ pc = "done" /\ N_SIM = 2
    /\ msg = Odom(0, 0, 1000, 1, 0, 0)
    /\ \A j \in 1..N_BEAMS : laser_scan[j] = 10 * 100
    /\ Len(resetLog) = 1 /\ Len(stepLog) = 2 /\ Len(policyLog) = 3
    /\ stepLog[1].action # stepLog[2].action

\* C2 as stated: with N_SIM = 8 and slice step 4 the published trajectory has
\* floor((N_SIM + 1) / 4) rows.
C2_FloorOfRows ==
    (pc = "done" /\ Planning /\ N_SIM = 8 /\ ResampleStep = 4)
        => Len(traj_out[1]) = (N_SIM + 1) \div ResampleStep

\* C2 amended: with N_SIM = 8 and slice step 4 the published trajectory has
\* floor(N_SIM / 4) + 1 = 3 rows, the fine rows 0, 4 and 8.
C2_ThreeRows ==
    (pc = "done" /\ Planning /\ N_SIM = 8 /\ ResampleStep = 4)
        => /\ Len(traj_out) = 1
           /\ Len(traj_out[1]) = N_SIM \div ResampleStep + 1
           /\ Len(traj_out[1]) = 3
           /\ traj_out[1] = <<ref_traj[1], ref_traj[5], ref_traj[9]>>

C2_Witness ==
    /\ pc = "done" /\ Planning /\ N_SIM = 8 /\ ResampleStep = 4
    /\ config.n_steps = 2 /\ config.sim_time_step = 100 /\ config.rl_sim_time_step = 25
    /\ Len(ref_traj) = 9 /\ Len(traj_out) = 1
    /\ ref_traj[5] # ref_traj[4] /\ ref_traj[9] # ref_traj[8]

InBounds(a) == Abs(a[1]) <= ONE * STEER_MAX /\ Abs(a[2]) <= ONE * VEL_MAX

ClipUnit(v) == Clip(v, -ONE, ONE)

\* C4: whatever the raw policy output, the action run_model returns has
\* |steer| <= 0.4189 and |vel| <= 4.0, each channel being its own raw value
\* clipped to [-1, 1] and scaled; clipping again changes nothing; and the drive
\* command, every action given to env.step and every recorded delta are such
\* actions.
C4_ActionBounds ==
    /\ \A c \in 1..Len(policyLog) :
           /\ InBounds(policyLog[c].ret)
           /\ policyLog[c].ret[1] = ClipUnit(policyLog[c].raw[1]) * STEER_MAX
           /\ policyLog[c].ret[2] = ClipUnit(policyLog[c].raw[2]) * VEL_MAX
           /\ ClipUnit(ClipUnit(policyLog[c].raw[1])) = ClipUnit(policyLog[c].raw[1])
           /\ ClipUnit(ClipUnit(policyLog[c].raw[2])) = ClipUnit(policyLog[c].raw[2])
    /\ \A d \in 1..Len(drive_out) :
           InBounds(<<drive_out[d].steering_angle, drive_out[d].speed>>)
    /\ \A k \in 1..Len(stepLog) : InBounds(stepLog[k].action)
    /\ \A r \in 1..Len(ref_traj) : Abs(ref_traj[r][3]) <= ONE * STEER_MAX
    /\ InBounds(<<steer, vel>>)

\* Both channels of the first raw output are beyond the bounds, on opposite sides,
\* and the action went to the simulator and into the trajectory.
C4_Witness ==
    /\ pc = "done" /\ Planning /\ Len(stepLog) = 1
    /\ policyLog[1].raw = <<MaxRaw, -MaxRaw>> /\ MaxRaw > ONE
    /\ stepLog[1].action = <<ONE * STEER_MAX, -(ONE * VEL_MAX)>>
    /\ ref_traj[1][3] = ONE * STEER_MAX

\* The readings at stride floor(L / B) of the clipped scan of message m.
StrideSelection(m) ==
    [j \in 1..N_BEAMS |->
        Clip(Ranges(m, (j - 1) * (m.len \div N_BEAMS)), m.range_min, m.range_max)]

\* C5: after laser_callback on a scan whose length is a multiple of N_BEAMS the
\* callback has not raised and the scan buffer holds the N_BEAMS readings at
\* stride floor(L / N_BEAMS) of the clipped scan.
C5_StrideOfScanLength ==
    (scanLog.seen /\ scanLog.msg.len % N_BEAMS = 0)
        => /\ error \notin {"IndexError:ranges", "ValueError:laser_scan"}
           /\ Len(laser_scan) = N_BEAMS
           /\ laser_scan = StrideSelection(scanLog.msg)

\* C6: a trajectory is on the output only when the cycle has completed its reset,
\* its N_SIM steps and its N_SIM + 1 policy calls, and holds rows of the complete
\* rollout; a cycle in which env.reset, env.step or a policy call of the loop
\* raised has published neither a trajectory nor markers.
C6_NoPartialTrajectory ==
    /\ traj_out # <<>> =>
           /\ pc = "done" /\ Planning
           /\ Len(resetLog) = 1 /\ Len(stepLog) = N_SIM /\ Len(policyLog) = N_SIM + 1
           /\ Len(traj_out) = 1
           /\ \A j \in 1..Len(traj_out[1]) :
                  \E r \in WrittenRows : traj_out[1][j] = ref_traj[r]
    /\ viz_out # <<>> => Len(stepLog) = N_SIM /\ Len(policyLog) = N_SIM + 1
    /\ (pc = "crashed" /\ error \in {"env.reset", "env.step", "IndexError:scans", "run_model"})
           => traj_out = <<>> /\ viz_out = <<>>

\* A step raised after a first step and a policy call had filled a row.
C6_Witness ==
    /\ pc = "crashed" /\ error = "env.step" /\ Planning
    /\ Len(stepLog) = 1 /\ Len(policyLog) = 2 /\ N_SIM = 2
    /\ ref_traj[2] # ZeroRow /\ ref_traj[3] = ZeroRow
    /\ traj_out = <<>> /\ viz_out = <<>>

\* C7: in direct-drive mode a cycle makes no reset, no step, no markers and no
\* trajectory, and returns having published one drive command, the (steer, vel)
\* of its one policy call; in planning mode a cycle publishes no drive command and
\* returns having published one trajectory.
C7_OneOutputKind ==
    /\ DRIVE =>
           /\ resetLog = <<>> /\ stepLog = <<>> /\ viz_out = <<>> /\ traj_out = <<>>
           /\ Len(drive_out) <= 1
           /\ pc = "done" =>
                  /\ Len(drive_out) = 1 /\ Len(policyLog) = 1
                  /\ drive_out[1].steering_angle = policyLog[1].ret[1]
                  /\ drive_out[1].speed = policyLog[1].ret[2]
    /\ Planning =>
           /\ drive_out = <<>>
           /\ Len(traj_out) <= 1
           /\ pc = "done" => Len(traj_out) = 1

C7_Witness ==
    /\ DRIVE /\ pc = "done" /\ Len(drive_out) = 1
    /\ policyLog[1].raw = <<-1, 2>>
    /\ drive_out[1] = [speed |-> ONE * VEL_MAX, steering_angle |-> -STEER_MAX]

\* C8: the inverse cosine is only evaluated on an argument in [-1, 1], and the yaw
\* written to the vehicle state, shown to the policy and given to env.reset is a
\* number.
C8_ArccosArgumentClamped ==
    /\ \A k \in 1..Len(arccosLog) : -1000 <= arccosLog[k] /\ arccosLog[k] <= 1000
    /\ ~IsNaN(pose[3])
    /\ \A c \in 1..Len(policyLog) : ~IsNaN(policyLog[c].obs.pose[3])
    /\ \A k \in 1..Len(resetLog) : ~IsNaN(resetLog[k][3])

\* C9: the reset is given the real pose; step k is given the action policy call
\* k - 1 returned; policy call k observes the pose, velocity and scan step k
\* returned and a heading made of the steer given to step k and its slip angle;
\* row k holds the state step k returned; policy call 0 observes the real state
\* and the scan buffer, and row 0 holds the real state with its steer.
C9_Chained ==
    /\ Len(policyLog) - Len(stepLog) \in {0, 1}
    /\ \A k \in 1..Len(resetLog) : resetLog[k] = <<msg.x, msg.y, YawOf(msg.w)>>
    /\ Len(policyLog) >= 1 =>
           /\ policyLog[1].obs.scan = laser_scan
           /\ policyLog[1].obs.pose = <<msg.x, msg.y, YawOf(msg.w)>>
           /\ policyLog[1].obs.vel = <<msg.vx, msg.vy, msg.wz>>
           /\ ref_traj[1] = <<msg.x, msg.y, policyLog[1].ret[1], msg.vx,
                              WrapYaw(YawOf(msg.w)), msg.wz, Arctan2(msg.vy, msg.vx)>>
    /\ \A k \in 1..Len(stepLog) : stepLog[k].action = policyLog[k].ret
    /\ \A c \in 2..Len(policyLog) :
           LET o == stepLog[c - 1].ret
               a == stepLog[c - 1].action
           IN  /\ policyLog[c].obs.pose = <<o.x, o.y, o.theta>>
               /\ policyLog[c].obs.vel = <<o.vx, o.vy, o.wz>>
               /\ policyLog[c].obs.scan =
                      [j \in 1..ScanIndexLen |-> SimScans(o, SCAN_INDEX[j])]
               /\ policyLog[c].obs.heading = <<a[1], get_beta(a[1])>>
               /\ ref_traj[c] = <<o.x, o.y, policyLog[c].ret[1], o.vx,
                                  WrapYaw(o.theta), o.wz, Arctan2(o.vy, o.vx)>>

\* Two steps with different actions and different results.
C9_Witness ==
    /\ pc = "done" /\ Planning /\ N_SIM = 2
    /\ stepLog[1].action # stepLog[2].action
    /\ stepLog[1].ret # stepLog[2].ret
    /\ policyLog[3].obs.heading # heading
    /\ scanLog.seen

\* C10: when the ratio of the time steps is a positive integer k and N_SIM is
\* n_steps * k, the published trajectory has n_steps + 1 rows, row j being the
\* fine row j * k: the first is row 0 and the last is row N_SIM.
C10_EveryKthRow ==
    LET k == config.sim_time_step \div config.rl_sim_time_step
    IN  (/\ pc = "done" /\ Planning
         /\ config.sim_time_step % config.rl_sim_time_step = 0 /\ k >= 1
         /\ N_SIM = config.n_steps * k)
            => /\ Len(traj_out[1]) = config.n_steps + 1
               /\ \A j \in 0..config.n_steps : traj_out[1][j + 1] = ref_traj[j * k + 1]
               /\ traj_out[1][1] = ref_traj[1]
               /\ traj_out[1][Len(traj_out[1])] = ref_traj[N_SIM + 1]

====
